---- MODULE Spec2Model ----
(***************************************************************************)
(* Model of go-airports-service: the streaming upsert handler              *)
(* (HandleUpsert), the full-buffer handler (HandleNonStreamingUpsert) and  *)
(* the airports table they write to (Upsert / upsertQuery).                *)
(*                                                                         *)
(* A request body is a sequence of lexical items.  The encoding/json       *)
(* Decoder calls the streaming handler makes (Token, More, Decode) and     *)
(* json.Unmarshal of the full-buffer handler are modelled over that        *)
(* sequence.  Two requests carry the same body: request 1 goes to the      *)
(* streaming endpoint, request 2 to the full-buffer endpoint, each working *)
(* on its own copy of the same initial table.                              *)
(***************************************************************************)
EXTENDS Integers, Sequences, FiniteSets, TLC

\* ------------------------------------------------------------------ bounds
MaxElems == 2

\* ------------------------------------------------------- program constants
StatusOK == 200
StatusBadRequest == 400
StatusInternalServerError == 500

\* ---------------------------------------------------------------- requests
Reqs == {1, 2}

\* A field that the wire object does not carry.
Absent == "<absent>"

\* The wire-level objects of the model: the four text fields and geoloc, each
\* present or absent.
WireObjs ==
  { [name |-> "A", city |-> "C", country |-> "K", iata_code |-> "X1", geoloc |-> Absent],
    [name |-> "B", city |-> "D", country |-> "K", iata_code |-> "X1", geoloc |-> "g"],
    [name |-> "A", city |-> "C", country |-> "K", iata_code |-> "X2", geoloc |-> Absent],
    [name |-> "A", city |-> "C", country |-> "K", iata_code |-> Absent, geoloc |-> Absent] }

NoObj == [name |-> Absent, city |-> Absent, country |-> Absent, iata_code |-> Absent, geoloc |-> Absent]

\* An array element as it stands in the body: a JSON object, the literal null,
\* a well-formed value that is not an object ("bad", e.g. a string or a
\* number), or text that is not JSON ("junk").
Elements ==
  [t : {"obj"}, o : WireObjs] \cup
  { [t |-> "null", o |-> NoObj], [t |-> "bad", o |-> NoObj], [t |-> "junk", o |-> NoObj] }

Delim(c) == [t |-> c, o |-> NoObj]

\* The bodies of the model: an opening delimiter or none, at most MaxElems
\* elements, the comma before element nosep left out (0: none left out), a
\* closing delimiter, a stray '}' or none, and trailing content after ']'.
SeqsUpTo(S, n) == UNION { [1..k -> S] : k \in 0..n }

Inputs ==
  { i \in [open : {"[", "none"}, elems : SeqsUpTo(Elements, MaxElems),
           nosep : 0..MaxElems, close : {"]", "}", "none"}, trail : BOOLEAN] :
      /\ i.nosep # 1
      /\ i.nosep <= Len(i.elems)
      /\ i.trail => i.close = "]" }

RECURSIVE ElemTokens(_, _, _)
ElemTokens(elems, nosep, k) ==
  IF k > Len(elems) THEN << >>
  ELSE (IF k > 1 /\ k # nosep THEN << Delim(","), elems[k] >> ELSE << elems[k] >>)
         \o ElemTokens(elems, nosep, k + 1)

Tokens(i) ==
  (IF i.open = "[" THEN << Delim("[") >> ELSE << >>)
    \o ElemTokens(i.elems, i.nosep, 1)
    \o (IF i.close = "none" THEN << >> ELSE << Delim(i.close) >>)
    \o (IF i.trail THEN << [t |-> "junk", o |-> NoObj] >> ELSE << >>)

\* ------------------------------------------------------------ request type
\* json decoding into UpsertAirportRequest: the four tagged fields are copied,
\* a missing one is left at the zero value, geoloc has no field to go to.
FieldUnlessGeoloc(o, f) == IF o[f] = Absent \/ o.geoloc # Absent THEN "" ELSE o[f]

Field(o, f) == IF o[f] = Absent THEN "" ELSE o[f]

DecodeObj(o) ==
  [Name |-> Field(o, "name"), City |-> Field(o, "city"),
   Country |-> Field(o, "country"), IataCode |-> Field(o, "iata_code")]

ZeroReq == [Name |-> "", City |-> "", Country |-> "", IataCode |-> ""]

ToAirportSwapped(u) ==
  [Name |-> u.City, City |-> u.Name, Country |-> u.Country, IataCode |-> u.IataCode]

ToAirport(u) ==
  [Name |-> u.Name, City |-> u.City, Country |-> u.Country, IataCode |-> u.IataCode]

NoAirport == ZeroReq

\* validate.Check: one violation per empty required field, in the order the
\* fields are declared; the empty sequence when there is none.
RequiredFields == << "Name", "City", "Country", "IataCode" >>

WireName(f) ==
  CASE f = "Name" -> "name" [] f = "City" -> "city"
    [] f = "Country" -> "country" [] OTHER -> "iata_code"

RECURSIVE CheckFrom(_, _)
CheckFrom(u, k) ==
  IF k > Len(RequiredFields) THEN << >>
  ELSE (IF u[RequiredFields[k]] = "" THEN << WireName(RequiredFields[k]) >> ELSE << >>)
         \o CheckFrom(u, k + 1)

Check(u) == CheckFrom(u, 1)

\* ----------------------------------------------------------------- storage
\* upsertQuery: INSERT ... ON CONFLICT (iata_code) DO UPDATE SET name, city,
\* country.  A table is a set of rows.
\* ON CONFLICT (iata_code) DO NOTHING in place of DO UPDATE.
UpsertRowsDoNothing(rows, a) ==
  IF \E x \in rows : x.IataCode = a.IataCode THEN rows ELSE rows \cup { a }

\* A plain INSERT into a table without the unique constraint.
UpsertRowsAppend(rows, a) == rows \cup { a }

\* DELETE FROM airports followed by the INSERT.
UpsertRowsTruncate(rows, a) == { a }

\* DO UPDATE SET that writes the name to every row of the table.
UpsertRowsTouchAll(rows, a) ==
  IF \E x \in rows : x.IataCode = a.IataCode
    THEN { IF x.IataCode = a.IataCode
             THEN [x EXCEPT !.Name = a.Name, !.City = a.City, !.Country = a.Country]
             ELSE [x EXCEPT !.Name = a.Name] : x \in rows }
    ELSE { [x EXCEPT !.Name = a.Name] : x \in rows } \cup { a }

UpsertRows(rows, a) ==
  IF \E x \in rows : x.IataCode = a.IataCode
    THEN { IF x.IataCode = a.IataCode
             THEN [x EXCEPT !.Name = a.Name, !.City = a.City, !.Country = a.Country]
             ELSE x : x \in rows }
    ELSE rows \cup { a }

\* The messages of the errors upsertAirport returns in the model: airports.Upsert
\* wraps what ExecContext returned with "upserting airport".
Causes == { "database error", "upserting airport: sql: connection is already closed" }

\* What airports.Upsert returns when ExecContext finds the context done.
ContextCanceled == "upserting airport: context canceled"

\* Tables the requests can find: what earlier requests left behind.
InitialTables ==
  { {},
    { [Name |-> "Z", City |-> "Z", Country |-> "Z", IataCode |-> "X1"],
      [Name |-> "Z", City |-> "Z", Country |-> "Z", IataCode |-> "X2"] } }

\* ---------------------------------------------------------------- messages
MsgUpserted == << "airports upserted" >>
MsgExpectedOpen == << "invalid JSON: expected '[' at start" >>
MsgExpectedClose == << "invalid JSON: expected ']' at end" >>
MsgInvalidStructure == << "invalid JSON airport structure" >>
MsgReadBody == << "failed to read request body" >>
MsgInvalidFormat == << "invalid JSON format" >>
MsgUpsertError(cause) == << "error upserting airport", cause >>

RECURSIVE MsgViolations(_)
MsgViolations(fs) ==
  IF fs = << >> THEN << >>
  ELSE << Head(fs), "is a required field" >> \o MsgViolations(Tail(fs))

\* web.RespondWithError, web.Respond, web.RespondAfterFlush: one write of a
\* status and a JSON body to the response.
ErrorResponse(code, msg) == [status |-> code, key |-> "error", msg |-> msg]
MessageResponse(code, msg) == [status |-> code, key |-> "message", msg |-> msg]

\* handlerError values built by processAirport, and the error responses of
\* HandleUpsert.
DecodeErrorGeneric == [code |-> StatusBadRequest, msg |-> MsgInvalidFormat]
DecodeError == [code |-> StatusBadRequest, msg |-> MsgInvalidStructure]
ValidationErrorFirstOnly(v) == [code |-> StatusBadRequest, msg |-> MsgViolations(<< Head(v) >>)]
ValidationError(v) == [code |-> StatusBadRequest, msg |-> MsgViolations(v)]
UpsertErrorAsBadRequest(cause) == [code |-> StatusBadRequest, msg |-> MsgUpsertError(cause)]
UpsertError(cause) == [code |-> StatusInternalServerError, msg |-> MsgUpsertError(cause)]
OpenError == [code |-> StatusBadRequest, msg |-> MsgExpectedOpen]
CloseErrorAsOpen == [code |-> StatusBadRequest, msg |-> MsgExpectedOpen]
CloseError == [code |-> StatusBadRequest, msg |-> MsgExpectedClose]
FlushErrorAsBadRequest(err) == [code |-> StatusBadRequest, msg |-> << err >>]
FlushError(err) == [code |-> StatusInternalServerError, msg |-> << err >>]

\* The error responses of HandleNonStreamingUpsert.
ReadBodyError == [code |-> StatusBadRequest, msg |-> MsgReadBody]
FormatError == [code |-> StatusBadRequest, msg |-> MsgInvalidFormat]
NonStreamingValidationErrorGeneric(v) == [code |-> StatusBadRequest, msg |-> MsgInvalidFormat]
NonStreamingValidationError(v) == [code |-> StatusBadRequest, msg |-> MsgViolations(v)]
NonStreamingUpsertErrorSwallowed(cause) == [code |-> StatusInternalServerError, msg |-> << "error upserting airport" >>]
NonStreamingUpsertError(cause) == [code |-> StatusInternalServerError, msg |-> MsgUpsertError(cause)]

\* The errors ctr.Flush can return in the model.
FlushErrs == { "flush error", "feature not supported" }

\* ------------------------------------------------------------------- state
VARIABLES
  input,       \* input[r]: the body of request r
  handler,     \* handler[r]: "stream" (HandleUpsert) or "nonstream"
  db,          \* db[r]: the airports table request r works on
  db0,         \* the table before the requests
  pc,          \* pc[r]: the statement request r is at
  pos,         \* pos[r]: the json.Decoder's position in the body (next item)
  tokenState,  \* tokenState[r]: the json.Decoder's tokenState
  req,         \* req[r]: the decoded UpsertAirportRequest in hand
  arr,         \* arr[r]: airportsToBeUpserted
  idx,         \* idx[r]: number of elements taken up so far
  resp,        \* resp[r]: the responses written, in order
  log,         \* log[r]: the calls request r made, in order
  cancelAt,    \* cancelAt[r]: the number of calls request r had made when its
               \* context was cancelled; NotCancelled while it is not
  shared,      \* TRUE: the requests run concurrently on one table; FALSE: one
               \* after the other, each on its own copy of the initial table
  run          \* the state of run in cmd/main.go: the statement it is at, the
               \* database handle, the HTTP server, its two channels, the time
               \* spent in srv.Shutdown, the error it returns and its calls

vars == << input, handler, db, db0, pc, pos, tokenState, req, arr, idx, resp, log, cancelAt, shared, run >>

NotCancelled == 0 - 1

Event(op, ok, n, a) == [op |-> op, ok |-> ok, n |-> n, a |-> a, err |-> ""]

Failed(op, n, a, err) == [op |-> op, ok |-> FALSE, n |-> n, a |-> a, err |-> err]

\* context.WithTimeout(ctx, 5*time.Second): the seconds srv.Shutdown may take.
ShutdownTimeout == 5

\* run before its first statement.
Starting ==
  [pc |-> "connect", db |-> "none", srv |-> "new", shutdown |-> FALSE,
   serverErrors |-> "", elapsed |-> 0, err |-> "", trace |-> << >>]

\* run waiting in its select: the database is open and the server serves.
Serving ==
  [Starting EXCEPT !.pc = "select", !.db = "open", !.srv = "serving",
                   !.trace = << "ConnectToSqlite", "ListenAndServe" >>]

Init ==
  /\ \E i \in Inputs : input = [r \in Reqs |-> i]
  /\ handler = [r \in Reqs |-> IF r = 1 THEN "stream" ELSE "nonstream"]
  /\ \E t \in InitialTables : db0 = t /\ db = [r \in Reqs |-> t]
  /\ pc = [r \in Reqs |-> IF r = 1 THEN "open" ELSE "read"]
  /\ pos = [r \in Reqs |-> 1]
  /\ tokenState = [r \in Reqs |-> "top"]
  /\ req = [r \in Reqs |-> ZeroReq]
  /\ arr = [r \in Reqs |-> << >>]
  /\ idx = [r \in Reqs |-> 0]
  /\ resp = [r \in Reqs |-> << >>]
  /\ log = [r \in Reqs |-> << >>]
  /\ cancelAt = [r \in Reqs |-> NotCancelled]
  /\ shared = FALSE
  /\ run = Serving

\* The handler of request r has been called by the server.
Started(r) == pc[r] \notin { "open", "read" }

\* The handler of request r can take a step: the process has not ended, and
\* the server calls a handler only for a request it accepted while serving.
Alive(r) == run.pc # "exit" /\ (Started(r) \/ run.srv = "serving")

\* A request that waits while another request that failed is not cleaned up.
TurnHeldByFailure(r) ==
  \A q \in Reqs \ { r } : pc[q] = "done" => resp[q][1].status = StatusOK

\* Request 2 is issued once request 1 has been answered, unless the two run
\* concurrently.
Turn(r) == Alive(r) /\ (shared \/ r = 1 \/ pc[1] = "done")

\* The tables after request r wrote table t: h.db is one database for every
\* request that runs on it.
Stored(r, t) == IF shared THEN [q \in Reqs |-> t] ELSE [db EXCEPT ![r] = t]

Body(r) == Tokens(input[r])

\* dec.peek: the next item, or EOF.
Peek(r) == IF pos[r] > Len(Body(r)) THEN Delim("EOF") ELSE Body(r)[pos[r]]

\* A response written with the return after it missing.
RespondNoReturn(r, rsp) ==
  /\ resp' = [resp EXCEPT ![r] = Append(@, rsp)]
  /\ pc' = pc

\* One response is written and the handler returns.
Respond(r, rsp) ==
  /\ resp' = [resp EXCEPT ![r] = Append(@, rsp)]
  /\ pc' = [pc EXCEPT ![r] = "done"]

RespondEvent(rsp) == [op |-> "respond", ok |-> rsp.status = StatusOK, n |-> rsp.status,
                      a |-> NoAirport, err |-> ""]

\* web.RespondWithError(w, code, msg); return -- after the call ev failed.
RespondWithError(r, ev, herr) ==
  /\ Respond(r, ErrorResponse(herr.code, herr.msg))
  /\ log' = [log EXCEPT ![r] = @ \o << ev, RespondEvent(ErrorResponse(herr.code, herr.msg)) >>]

\* The call ev succeeded and the handler goes on at statement to.
Continue(r, ev, to) ==
  /\ pc' = [pc EXCEPT ![r] = to]
  /\ log' = [log EXCEPT ![r] = Append(@, ev)]
  /\ UNCHANGED resp

\* db.ExecContext(ctx, ...): a context that is done makes the call fail with
\* the context's error, before anything is written.
ContextIgnored(r) == FALSE

ContextDone(r) == cancelAt[r] # NotCancelled

\* db.Close was called: sql.DB refuses every call made after it.
DatabaseClosed == "upserting airport: sql: database is closed"

DbClosed == run.db = "closed"

ExecErrors(r) ==
  IF DbClosed THEN { DatabaseClosed }
  ELSE IF ContextDone(r) THEN { ContextCanceled } ELSE Causes

\* The request's context is cancelled (the client went away) while the
\* handler is at work.
Cancel(r) ==
  /\ Turn(r) /\ pc[r] # "done" /\ cancelAt[r] = NotCancelled
  /\ cancelAt' = [cancelAt EXCEPT ![r] = Len(log[r])]
  /\ UNCHANGED << input, handler, shared, run, db, db0, pc, pos, tokenState, req, arr, idx, resp, log >>

\* ------------------------------------------------------------ HandleUpsert
\* readExpectedToken(dec, expected): dec.Token() returns the next delimiter;
\* it accepts ']' only after '[' or after an element, and '[' only where a
\* value may start.  Anything else is an error or a token that differs from
\* the expected one.
ReadExpectedTokenUncompared(r, expected) == Peek(r).t # "EOF"

ReadExpectedToken(r, expected) ==
  /\ Peek(r).t = expected
  /\ expected = "]" => tokenState[r] \in { "arrayStart", "arrayComma" }
  /\ expected = "[" => tokenState[r] \in { "top", "arrayStart", "arrayValue" }

ReadOpen(r) ==
  /\ Turn(r) /\ handler[r] = "stream" /\ pc[r] = "open"
  /\ IF ReadExpectedToken(r, "[")
       THEN /\ pos' = [pos EXCEPT ![r] = @ + 1]
            /\ tokenState' = [tokenState EXCEPT ![r] = "arrayStart"]
            /\ Continue(r, Event("token[", TRUE, 0, NoAirport), "more")
       ELSE /\ RespondWithError(r, Failed("token[", 0, NoAirport, ""), OpenError)
            /\ UNCHANGED << pos, tokenState >>
  /\ UNCHANGED << input, handler, shared, run, cancelAt, db, db0, req, arr, idx >>

\* dec.More(): there is a next item and it is neither ']' nor '}'.
MoreBeforeClose(r) == Peek(r).t # "EOF"

More(r) == Peek(r).t \notin { "EOF", "]", "}" }

\* processAirports: after an element without error the loop tests again.
LoopOnce == "close"

LoopStalled == "stalled"

LoopBack == "more"

\* processAirports: the loop test.
LoopTest(r) ==
  /\ Turn(r) /\ handler[r] = "stream" /\ pc[r] = "more"
  /\ Continue(r, [op |-> "more", ok |-> More(r), n |-> idx[r], a |-> NoAirport, err |-> ""],
              IF More(r) THEN "decode" ELSE "close")
  /\ UNCHANGED << input, handler, shared, run, cancelAt, db, db0, pos, tokenState, req, arr, idx >>

\* A Decode whose type errors are dropped: the request stays at its zero value.
DecodeResultLenient(r) ==
  LET b == Body(r)
      comma == tokenState[r] = "arrayComma"
      p == IF comma THEN pos[r] + 1 ELSE pos[r]
      v == IF p > Len(b) THEN Delim("EOF") ELSE b[p]
  IN  IF comma /\ Peek(r).t # ","
        THEN [ok |-> FALSE, u |-> ZeroReq, p |-> pos[r]]
      ELSE IF v.t = "obj" THEN [ok |-> TRUE, u |-> DecodeObj(v.o), p |-> p + 1]
      ELSE IF v.t \in { "null", "bad" } THEN [ok |-> TRUE, u |-> ZeroReq, p |-> p + 1]
      ELSE [ok |-> FALSE, u |-> ZeroReq, p |-> p]

\* dec.Decode(&req): after an element the decoder first wants a comma
\* (tokenPrepareForDecode), then reads one value and unmarshals it into a
\* fresh UpsertAirportRequest.  The result: ok, the request, the new position.
DecodeResult(r) ==
  LET b == Body(r)
      comma == tokenState[r] = "arrayComma"
      p == IF comma THEN pos[r] + 1 ELSE pos[r]
      v == IF p > Len(b) THEN Delim("EOF") ELSE b[p]
  IN  IF comma /\ Peek(r).t # ","
        THEN [ok |-> FALSE, u |-> ZeroReq, p |-> pos[r]]
      ELSE IF v.t = "obj" THEN [ok |-> TRUE, u |-> DecodeObj(v.o), p |-> p + 1]
      ELSE IF v.t = "null" THEN [ok |-> TRUE, u |-> ZeroReq, p |-> p + 1]
      ELSE [ok |-> FALSE, u |-> ZeroReq, p |-> p]

\* processAirport: dec.Decode.
Decode(r) ==
  /\ Turn(r) /\ handler[r] = "stream" /\ pc[r] = "decode"
  /\ idx' = [idx EXCEPT ![r] = @ + 1]
  /\ LET d == DecodeResult(r) IN
       IF d.ok
         THEN /\ req' = [req EXCEPT ![r] = d.u]
              /\ pos' = [pos EXCEPT ![r] = d.p]
              /\ tokenState' = [tokenState EXCEPT ![r] = "arrayComma"]
              /\ Continue(r, Event("decode", TRUE, idx[r] + 1, NoAirport), "validate")
         ELSE /\ RespondWithError(r, Failed("decode", idx[r] + 1, NoAirport, ""), DecodeError)
              /\ UNCHANGED << req, pos, tokenState >>
  /\ UNCHANGED << input, handler, shared, run, cancelAt, db, db0, arr >>

\* processAirport: the test of what validate.Check returned (err != nil).
ValidationIgnored(v) == FALSE

ValidationFailed(v) == v # << >>

\* processAirport: validate.Check(req).
Validate(r) ==
  /\ Turn(r) /\ handler[r] = "stream" /\ pc[r] = "validate"
  /\ LET v == Check(req[r]) IN
       IF ~ValidationFailed(v)
         THEN Continue(r, Event("validate", TRUE, idx[r], ToAirport(req[r])), "upsert")
         ELSE RespondWithError(r, Failed("validate", idx[r], ToAirport(req[r]), ""),
                               ValidationError(v))
  /\ UNCHANGED << input, handler, shared, run, cancelAt, db, db0, pos, tokenState, req, arr, idx >>

\* processAirport: upsertAirport(ctx, h.db, req.ToAirport()).  airports.Upsert
\* succeeds and the row is written, or ExecContext fails and nothing is.
\* upsertAirport called again for the same element after it failed once.
UpsertWithRetry(r) ==
  /\ Turn(r) /\ handler[r] = "stream" /\ pc[r] = "upsert"
  /\ LET a == ToAirport(req[r])
         retried == Len(log[r]) > 0 /\ log[r][Len(log[r])].op = "upsert" IN
       \/ /\ ~ContextDone(r) /\ ~DbClosed
          /\ db' = Stored(r, UpsertRows(db[r], a))
          /\ Continue(r, Event("upsert", TRUE, idx[r], a), LoopBack)
       \/ \E cause \in ExecErrors(r) :
            /\ IF retried
                 THEN RespondWithError(r, Failed("upsert", idx[r], a, cause), UpsertError(cause))
                 ELSE Continue(r, Failed("upsert", idx[r], a, cause), "upsert")
            /\ UNCHANGED db
  /\ UNCHANGED << input, handler, shared, run, cancelAt, db0, pos, tokenState, req, arr, idx >>

Upsert(r) ==
  /\ Turn(r) /\ handler[r] = "stream" /\ pc[r] = "upsert"
  /\ LET a == ToAirport(req[r]) IN
       \/ /\ ~ContextDone(r) /\ ~DbClosed
          /\ db' = Stored(r, UpsertRows(db[r], a))
          /\ Continue(r, Event("upsert", TRUE, idx[r], a), LoopBack)
       \/ \E cause \in ExecErrors(r) :
            /\ RespondWithError(r, Failed("upsert", idx[r], a, cause), UpsertError(cause))
            /\ UNCHANGED db
  /\ UNCHANGED << input, handler, shared, run, cancelAt, db0, pos, tokenState, req, arr, idx >>

\* The closing check with its result dropped.
ReadCloseUnchecked(r) ==
  /\ Turn(r) /\ handler[r] = "stream" /\ pc[r] = "close"
  /\ pos' = [pos EXCEPT ![r] = @ + 1]
  /\ tokenState' = [tokenState EXCEPT ![r] = "top"]
  /\ Continue(r, Event("token]", TRUE, idx[r], NoAirport), "flush")
  /\ UNCHANGED << input, handler, shared, run, cancelAt, db, db0, req, arr, idx >>

\* The check for the closing ']' followed by a check that the body ends there.
ReadCloseAtEnd(r) ==
  /\ Turn(r) /\ handler[r] = "stream" /\ pc[r] = "close"
  /\ IF ReadExpectedToken(r, "]") /\ pos[r] = Len(Body(r))
       THEN /\ pos' = [pos EXCEPT ![r] = @ + 1]
            /\ tokenState' = [tokenState EXCEPT ![r] = "top"]
            /\ Continue(r, Event("token]", TRUE, idx[r], NoAirport), "flush")
       ELSE /\ RespondWithError(r, Failed("token]", idx[r], NoAirport, ""), CloseError)
            /\ UNCHANGED << pos, tokenState >>
  /\ UNCHANGED << input, handler, shared, run, cancelAt, db, db0, req, arr, idx >>

\* HandleUpsert: the check for the closing ']'.
ReadClose(r) ==
  /\ Turn(r) /\ handler[r] = "stream" /\ pc[r] = "close"
  /\ IF ReadExpectedToken(r, "]")
       THEN /\ pos' = [pos EXCEPT ![r] = @ + 1]
            /\ tokenState' = [tokenState EXCEPT ![r] = "top"]
            /\ Continue(r, Event("token]", TRUE, idx[r], NoAirport), "flush")
       ELSE /\ RespondWithError(r, Failed("token]", idx[r], NoAirport, ""), CloseError)
            /\ UNCHANGED << pos, tokenState >>
  /\ UNCHANGED << input, handler, shared, run, cancelAt, db, db0, req, arr, idx >>

\* The test of Flush's error inverted: the error response after a Flush that
\* succeeded, the success path after one that failed.
FlushInverted(r) ==
  /\ Turn(r) /\ handler[r] = "stream" /\ pc[r] = "flush"
  /\ \/ RespondWithError(r, Event("flush", TRUE, idx[r], NoAirport), FlushError("<nil>"))
     \/ \E err \in FlushErrs : Continue(r, Failed("flush", idx[r], NoAirport, err), "respond")
  /\ UNCHANGED << input, handler, shared, run, cancelAt, db, db0, pos, tokenState, req, arr, idx >>

\* ctr.Flush(): commits the response, or fails.
Flush(r) ==
  /\ Turn(r) /\ handler[r] = "stream" /\ pc[r] = "flush"
  /\ \/ Continue(r, Event("flush", TRUE, idx[r], NoAirport), "respond")
     \/ \E err \in FlushErrs :
          RespondWithError(r, Failed("flush", idx[r], NoAirport, err), FlushError(err))
  /\ UNCHANGED << input, handler, shared, run, cancelAt, db, db0, pos, tokenState, req, arr, idx >>

\* web.RespondAfterFlush(w, UpsertAirportResponse{Message: "airports upserted"}).
RespondAfterFlush(r) ==
  /\ Turn(r) /\ handler[r] = "stream" /\ pc[r] = "respond"
  /\ Respond(r, MessageResponse(StatusOK, MsgUpserted))
  /\ log' = [log EXCEPT ![r] = Append(@, RespondEvent(MessageResponse(StatusOK, MsgUpserted)))]
  /\ UNCHANGED << input, handler, shared, run, cancelAt, db, db0, pos, tokenState, req, arr, idx >>

\* ------------------------------------------------ HandleNonStreamingUpsert
\* ioReadAll(r.Body): the whole body, or a read error.
ReadAll(r) ==
  /\ Turn(r) /\ handler[r] = "nonstream" /\ pc[r] = "read"
  /\ \/ Continue(r, Event("readall", TRUE, 0, NoAirport), "unmarshal")
     \/ RespondWithError(r, Failed("readall", 0, NoAirport, "unexpected EOF"), ReadBodyError)
  /\ UNCHANGED << input, handler, shared, run, cancelAt, db, db0, pos, tokenState, req, arr, idx >>

\* json.Unmarshal(body, &airportsToBeUpserted): the body must be one JSON
\* value and nothing else.  null gives the nil slice; an array gives one
\* request per element, null elements left at the zero value; an element that
\* is not an object, or a body that is not an array, is a type error.
IsValue(e) == e.t \in { "obj", "null", "bad" }

IsElemList(s) ==
  \/ Len(s) = 0
  \/ /\ Len(s) % 2 = 1
     /\ \A k \in 1..Len(s) : IF k % 2 = 1 THEN IsValue(s[k]) ELSE s[k].t = ","

ElemValues(s) == [k \in 1..((Len(s) + 1) \div 2) |-> s[2 * k - 1]]

Unmarshal(b) ==
  IF Len(b) = 1 /\ b[1].t = "null" THEN [ok |-> TRUE, v |-> << >>]
  ELSE IF /\ Len(b) >= 2 /\ b[1].t = "[" /\ b[Len(b)].t = "]"
          /\ IsElemList(SubSeq(b, 2, Len(b) - 1))
          /\ \A k \in 2..(Len(b) - 1) : b[k].t # "bad"
    THEN [ok |-> TRUE,
          v |-> LET es == ElemValues(SubSeq(b, 2, Len(b) - 1))
                IN  [k \in 1..Len(es) |-> IF es[k].t = "obj" THEN DecodeObj(es[k].o) ELSE ZeroReq]]
  ELSE [ok |-> FALSE, v |-> << >>]

JsonUnmarshal(r) ==
  /\ Turn(r) /\ handler[r] = "nonstream" /\ pc[r] = "unmarshal"
  /\ LET u == Unmarshal(Body(r)) IN
       IF u.ok
         THEN /\ arr' = [arr EXCEPT ![r] = u.v]
              /\ Continue(r, Event("unmarshal", TRUE, 0, NoAirport), "range")
         ELSE /\ RespondWithError(r, Failed("unmarshal", 0, NoAirport, ""), FormatError)
              /\ UNCHANGED arr
  /\ UNCHANGED << input, handler, shared, run, cancelAt, db, db0, pos, tokenState, req, idx >>

\* The range loop has another element to take up.
RangeSkipsLast(r) == idx[r] + 1 < Len(arr[r])

RangeFirstOnly(r) == idx[r] < 1 /\ idx[r] < Len(arr[r])

RangeHasNext(r) == idx[r] < Len(arr[r])

\* for _, request := range airportsToBeUpserted; after the last element,
\* web.Respond(w, http.StatusOK, ...).
Range(r) ==
  /\ Turn(r) /\ handler[r] = "nonstream" /\ pc[r] = "range"
  /\ IF RangeHasNext(r)
       THEN /\ req' = [req EXCEPT ![r] = arr[r][idx[r] + 1]]
            /\ idx' = [idx EXCEPT ![r] = @ + 1]
            /\ Continue(r, Event("range", TRUE, idx[r] + 1, NoAirport), "nvalidate")
       ELSE /\ Respond(r, MessageResponse(StatusOK, MsgUpserted))
            /\ log' = [log EXCEPT ![r] =
                         Append(@, RespondEvent(MessageResponse(StatusOK, MsgUpserted)))]
            /\ UNCHANGED << req, idx >>
  /\ UNCHANGED << input, handler, shared, run, cancelAt, db, db0, pos, tokenState, arr >>

\* The loop body: validate.Check(request).
NonStreamingValidate(r) ==
  /\ Turn(r) /\ handler[r] = "nonstream" /\ pc[r] = "nvalidate"
  /\ LET v == Check(req[r]) IN
       IF v = << >>
         THEN Continue(r, Event("validate", TRUE, idx[r], ToAirport(req[r])), "nupsert")
         ELSE RespondWithError(r, Failed("validate", idx[r], ToAirport(req[r]), ""),
                               NonStreamingValidationError(v))
  /\ UNCHANGED << input, handler, shared, run, cancelAt, db, db0, pos, tokenState, req, arr, idx >>

\* The loop body: upsertAirport(r.Context(), h.db, request.ToAirport()).
NonStreamingUpsert(r) ==
  /\ Turn(r) /\ handler[r] = "nonstream" /\ pc[r] = "nupsert"
  /\ LET a == ToAirport(req[r]) IN
       \/ /\ ~ContextDone(r) /\ ~DbClosed
          /\ db' = Stored(r, UpsertRows(db[r], a))
          /\ Continue(r, Event("upsert", TRUE, idx[r], a), "range")
       \/ \E cause \in ExecErrors(r) :
            /\ RespondWithError(r, Failed("upsert", idx[r], a, cause),
                                NonStreamingUpsertError(cause))
            /\ UNCHANGED db
  /\ UNCHANGED << input, handler, shared, run, cancelAt, db0, pos, tokenState, req, arr, idx >>

\* One statement of the handler that serves request r.
Step(r) ==
  \/ ReadOpen(r) \/ LoopTest(r) \/ Decode(r) \/ Validate(r) \/ Upsert(r)
  \/ ReadClose(r) \/ Flush(r) \/ RespondAfterFlush(r)
  \/ ReadAll(r) \/ JsonUnmarshal(r) \/ Range(r)
  \/ NonStreamingValidate(r) \/ NonStreamingUpsert(r)

Next == \E r \in Reqs : Step(r)

Spec == Init /\ [][Next]_vars

\* Every statement of a handler returns: the reads, upsertAirport and
\* ctr.Flush come back with a result or an error, so a request that can take
\* a step takes it.
SpecLive == Init /\ [][Next]_vars /\ \A r \in Reqs : WF_vars(Step(r))

\* Requests whose body is a whole array, with the context cancelled at any
\* moment of the handling.
WholeArrays == { i \in Inputs : i.open = "[" /\ i.close = "]" /\ ~i.trail /\ i.nosep = 0 }

InitCancel == Init /\ input[1] \in WholeArrays

NextCancel == Next \/ \E r \in Reqs : Cancel(r)

SpecCancel == InitCancel /\ [][NextCancel]_vars

\* Two requests that run concurrently on one table.  Their bodies are whole
\* arrays of objects, with the same elements in the same or in the opposite
\* order, so that the requests write the same codes.
SharedBodies ==
  { i \in WholeArrays : \A k \in 1..Len(i.elems) : i.elems[k].t = "obj" }

\* The body i with its elements in the opposite order.
Reversed(i) ==
  [i EXCEPT !.elems = [k \in 1..Len(i.elems) |-> i.elems[Len(i.elems) + 1 - k]]]

InitShared ==
  /\ \E i \in SharedBodies : \E j \in { i, Reversed(i) } : input = << i, j >>
  /\ handler = [r \in Reqs |-> IF r = 1 THEN "stream" ELSE "nonstream"]
  /\ \E t \in InitialTables : db0 = t /\ db = [r \in Reqs |-> t]
  /\ pc = [r \in Reqs |-> IF r = 1 THEN "open" ELSE "read"]
  /\ pos = [r \in Reqs |-> 1]
  /\ tokenState = [r \in Reqs |-> "top"]
  /\ req = [r \in Reqs |-> ZeroReq]
  /\ arr = [r \in Reqs |-> << >>]
  /\ idx = [r \in Reqs |-> 0]
  /\ resp = [r \in Reqs |-> << >>]
  /\ log = [r \in Reqs |-> << >>]
  /\ cancelAt = [r \in Reqs |-> NotCancelled]
  /\ shared = TRUE
  /\ run = Serving

\* Only an upsert call reads the context: a cancellation at any other moment
\* has the effect of one that comes when the next upsert is about to be made.
NextShared ==
  Next \/ \E r \in Reqs : pc[r] \in { "upsert", "nupsert" } /\ Cancel(r)

SpecShared == InitShared /\ [][NextShared]_vars

\* Two requests to the same endpoint, one after the other, each on its own
\* copy of the table.  The second body is the first with the geoloc of every
\* object taken out, or set to another value.
GeolocSet(i, g) ==
  [i EXCEPT !.elems = [k \in 1..Len(i.elems) |->
                         IF i.elems[k].t = "obj"
                           THEN [i.elems[k] EXCEPT !.o.geoloc = g]
                           ELSE i.elems[k]]]

InitGeoloc ==
  /\ \E i \in WholeArrays : \E g \in { Absent, "h" } : input = << i, GeolocSet(i, g) >>
  /\ \E h \in { "stream", "nonstream" } :
       /\ handler = [r \in Reqs |-> h]
       /\ pc = [r \in Reqs |-> IF h = "stream" THEN "open" ELSE "read"]
  /\ \E t \in InitialTables : db0 = t /\ db = [r \in Reqs |-> t]
  /\ pos = [r \in Reqs |-> 1]
  /\ tokenState = [r \in Reqs |-> "top"]
  /\ req = [r \in Reqs |-> ZeroReq]
  /\ arr = [r \in Reqs |-> << >>]
  /\ idx = [r \in Reqs |-> 0]
  /\ resp = [r \in Reqs |-> << >>]
  /\ log = [r \in Reqs |-> << >>]
  /\ cancelAt = [r \in Reqs |-> NotCancelled]
  /\ shared = FALSE
  /\ run = Serving

SpecGeoloc == InitGeoloc /\ [][Next]_vars

\* ------------------------------------------------------- run (cmd/main.go)
\* The variables of the requests, which run leaves alone.
requestVars ==
  << input, handler, db, db0, pc, pos, tokenState, req, arr, idx, resp, log, cancelAt, shared >>

\* The handler of request r is running.
InFlight(r) == Started(r) /\ pc[r] # "done"

Called(call) == [run EXCEPT !.trace = Append(@, call)]

\* db.ConnectToSqlite(sqliteDbFile): the handle, or an error that run returns
\* before db.Close is deferred.
ConnectToSqlite ==
  /\ run.pc = "connect"
  /\ \/ run' = [Called("ConnectToSqlite") EXCEPT !.db = "open", !.pc = "serve"]
     \/ run' = [Called("ConnectToSqlite failed") EXCEPT
                  !.err = "opening database file", !.pc = "exit"]
  /\ UNCHANGED requestVars

\* go func() { serverErrors <- srv.ListenAndServe() }(): the server starts.
ListenAndServe ==
  /\ run.pc = "serve"
  /\ run' = [Called("ListenAndServe") EXCEPT !.srv = "serving", !.pc = "select"]
  /\ UNCHANGED requestVars

\* srv.ListenAndServe returns an error of the listener: no request is accepted
\* any more, and the error is sent on serverErrors.  The handlers that were
\* called go on.
ListenAndServeReturns ==
  /\ run.pc = "select" /\ run.srv = "serving"
  /\ run' = [run EXCEPT !.srv = "stopped", !.serverErrors = "listen error"]
  /\ UNCHANGED requestVars

\* signal.Notify(shutdown, os.Interrupt, syscall.SIGTERM): a signal is sent on
\* shutdown, which holds one signal and is read by the select only.
Notify ==
  /\ run.pc \in { "serve", "select" } /\ ~run.shutdown
  /\ run' = [run EXCEPT !.shutdown = TRUE]
  /\ UNCHANGED requestVars

\* case err := <-serverErrors: return errors.Wrap(err, "server error").
SelectServerErrors ==
  /\ run.pc = "select" /\ run.serverErrors # ""
  /\ run' = [Called("serverErrors") EXCEPT !.err = "server error", !.pc = "defer"]
  /\ UNCHANGED requestVars

\* case sig := <-shutdown: the context with the deadline is made.
SelectShutdown ==
  /\ run.pc = "select" /\ run.shutdown
  /\ run' = [Called("shutdown") EXCEPT !.shutdown = FALSE, !.elapsed = 0, !.pc = "shutdown"]
  /\ UNCHANGED requestVars

\* srv.Shutdown(ctx) closes the listeners, which makes ListenAndServe return
\* ErrServerClosed, and then waits for the connections to become idle.
Shutdown ==
  /\ run.pc = "shutdown"
  /\ run' = [run EXCEPT !.srv = "draining", !.pc = "drain",
                        !.serverErrors = IF @ = "" THEN "http: Server closed" ELSE @]
  /\ UNCHANGED requestVars

\* A second of the deadline passes while srv.Shutdown waits.
Tick ==
  /\ run.pc = "drain" /\ run.elapsed < ShutdownTimeout
  /\ run' = [run EXCEPT !.elapsed = @ + 1]
  /\ UNCHANGED requestVars

\* srv.Shutdown returns: the error of closing the listeners (nil or not) once
\* no handler is running, or the context's error once the deadline has passed.
ShutdownReturns ==
  /\ run.pc = "drain"
  /\ \/ /\ \A r \in Reqs : ~InFlight(r)
        /\ \/ run' = [Called("Shutdown") EXCEPT !.srv = "shutdown", !.pc = "dbclose"]
           \/ run' = [Called("Shutdown failed") EXCEPT !.pc = "srvclose"]
     \/ /\ \E r \in Reqs : InFlight(r)
        /\ run.elapsed = ShutdownTimeout
        /\ run' = [Called("Shutdown failed") EXCEPT !.pc = "srvclose"]
  /\ UNCHANGED requestVars

\* The forced close left out.
SrvCloseSkipped ==
  /\ run.pc = "srvclose"
  /\ run' = [run EXCEPT !.err = "could not stop server gracefully", !.pc = "defer"]
  /\ UNCHANGED requestVars

\* srv.Close(); return errors.Wrap(err, "could not stop server gracefully"):
\* the listeners and the connections are closed; the handlers go on.
SrvClose ==
  /\ run.pc = "srvclose"
  /\ run' = [Called("srv.Close") EXCEPT !.srv = "closed",
               !.err = "could not stop server gracefully", !.pc = "defer"]
  /\ UNCHANGED requestVars

\* if err := db.Close(); err != nil { return ... }; return nil.  The handle is
\* closed whether or not Close returns an error.
DbClose ==
  /\ run.pc = "dbclose"
  /\ \E e \in { "nil", "could not close database connection" } :
       run' = [Called("db.Close") EXCEPT !.db = "closed", !.err = e, !.pc = "defer"]
  /\ UNCHANGED requestVars

\* The deferred calls of run: cancel(), db.Close(), log "Completed".
Deferred ==
  /\ run.pc = "defer"
  /\ run' = [Called("db.Close") EXCEPT !.db = "closed", !.pc = "exit"]
  /\ UNCHANGED requestVars

\* The process from its start: run, and the requests the server takes while it
\* serves, one after the other.  Their bodies are whole arrays of objects.
InitRun ==
  /\ \E i \in SharedBodies : input = [r \in Reqs |-> i]
  /\ handler = [r \in Reqs |-> IF r = 1 THEN "stream" ELSE "nonstream"]
  /\ db0 = {} /\ db = [r \in Reqs |-> {}]
  /\ pc = [r \in Reqs |-> IF r = 1 THEN "open" ELSE "read"]
  /\ pos = [r \in Reqs |-> 1]
  /\ tokenState = [r \in Reqs |-> "top"]
  /\ req = [r \in Reqs |-> ZeroReq]
  /\ arr = [r \in Reqs |-> << >>]
  /\ idx = [r \in Reqs |-> 0]
  /\ resp = [r \in Reqs |-> << >>]
  /\ log = [r \in Reqs |-> << >>]
  /\ cancelAt = [r \in Reqs |-> NotCancelled]
  /\ shared = FALSE
  /\ run = Starting

NextRun ==
  \/ ConnectToSqlite \/ ListenAndServe \/ ListenAndServeReturns \/ Notify
  \/ SelectServerErrors \/ SelectShutdown \/ Shutdown \/ Tick \/ ShutdownReturns
  \/ SrvClose \/ DbClose \/ Deferred
  \/ Next

SpecRun == InitRun /\ [][NextRun]_vars


\* ===================================================================
\* What the body and the calls' results say, independently of the handlers.

Streaming(r) == handler[r] = "stream"
Done(r) == pc[r] = "done"

\* The events of request r with operation op.
Events(r, op) == SelectSeq(log[r], LAMBDA e : e.op = op)

\* The airports request r upserted successfully, in call order.
PersistedBy(r) ==
  LET oks == SelectSeq(log[r], LAMBDA e : e.op = "upsert" /\ e.ok)
  IN  [k \in 1..Len(oks) |-> oks[k].a]

\* Element k of the body as the airport it describes.
ElemAirport(i, k) ==
  LET o == i.elems[k].o
      f(x) == IF x = Absent THEN "" ELSE x
  IN  [Name |-> f(o.name), City |-> f(o.city), Country |-> f(o.country),
       IataCode |-> f(o.iata_code)]

AllFieldsPresent(a) == a.Name # "" /\ a.City # "" /\ a.Country # "" /\ a.IataCode # ""

\* Element k is text that decodes into a candidate, after a comma where one
\* is due.
ElemDecodes(i, k) == i.elems[k].t \in { "obj", "null" } /\ k # i.nosep
ElemValid(i, k) == AllFieldsPresent(ElemAirport(i, k))

UpsertFailedAt(r, k) == \E j \in 1..Len(log[r]) :
                          log[r][j].op = "upsert" /\ ~log[r][j].ok /\ log[r][j].n = k

\* Element k is the first element that fails, at decode, validation or upsert.
FirstFailing(r, k) ==
  /\ k \in 1..Len(input[r].elems)
  /\ \A j \in 1..(k - 1) :
       ElemDecodes(input[r], j) /\ ElemValid(input[r], j) /\ ~UpsertFailedAt(r, j)
  /\ \/ ~ElemDecodes(input[r], k)
     \/ ~ElemValid(input[r], k)
     \/ UpsertFailedAt(r, k)

\* The names of the empty required fields of a, in declaration order.
ViolationsOf(a) ==
  (IF a.Name = "" THEN << "name", "is a required field" >> ELSE << >>)
    \o (IF a.City = "" THEN << "city", "is a required field" >> ELSE << >>)
    \o (IF a.Country = "" THEN << "country", "is a required field" >> ELSE << >>)
    \o (IF a.IataCode = "" THEN << "iata_code", "is a required field" >> ELSE << >>)

\* The error response element k calls for.
ErrorOfElement(r, k) ==
  IF ~ElemDecodes(input[r], k)
    THEN { [status |-> 400, key |-> "error", msg |-> << "invalid JSON airport structure" >>] }
  ELSE IF ~ElemValid(input[r], k)
    THEN { [status |-> 400, key |-> "error", msg |-> ViolationsOf(ElemAirport(input[r], k))] }
  ELSE { [status |-> 500, key |-> "error", msg |-> << "error upserting airport", c >>] :
           c \in Causes }

\* ===================================================================
\* C1: fail-fast prefix (streaming path).  When the request has ended and
\* element k of the submitted array is the first one to fail (decode,
\* validation or upsert), the request upserted exactly elements 1..k-1, in
\* order, the one response is the error of element k, and no element after k
\* was decoded, validated or passed to upsert.
C1_FailFastPrefix ==
  \A r \in Reqs : \A k \in 1..MaxElems + 1 :
    (Streaming(r) /\ Done(r) /\ input[r].open = "[" /\ FirstFailing(r, k)) =>
      /\ PersistedBy(r) = [j \in 1..(k - 1) |-> ElemAirport(input[r], j)]
      /\ Len(resp[r]) = 1 /\ resp[r][1] \in ErrorOfElement(r, k)
      /\ \A j \in 1..Len(log[r]) :
           log[r][j].op \in { "decode", "validate", "upsert" } => log[r][j].n <= k

\* A request that upserted its first element and failed on the second, which
\* does not decode.
C1_Witness ==
  /\ Streaming(1) /\ Done(1) /\ input[1].open = "[" /\ FirstFailing(1, 2)
  /\ ~ElemDecodes(input[1], 2)
  /\ Len(PersistedBy(1)) = 1

\* C2: validate before persist (both handlers).  Every airport passed to
\* upsert has all four required fields and was passed right after validation
\* of that same element returned no violation.
C2_ValidateBeforePersist ==
  \A r \in Reqs : \A j \in 1..Len(log[r]) :
    log[r][j].op = "upsert" =>
      /\ AllFieldsPresent(log[r][j].a)
      /\ j > 1
      /\ log[r][j - 1].op = "validate" /\ log[r][j - 1].ok
      /\ log[r][j - 1].a = log[r][j].a /\ log[r][j - 1].n = log[r][j].n

\* Both handlers upserted an element while an element with a violation was
\* in the array.
C2_Witness ==
  /\ \A r \in Reqs : Done(r) /\ Len(Events(r, "upsert")) > 0
  /\ \E k \in 1..Len(input[1].elems) :
       input[1].elems[k].t = "obj" /\ ~ElemValid(input[1], k)

\* The body is one well-formed, non-empty array of valid candidates.
ValidNonEmptyArray(i) ==
  /\ i.open = "[" /\ i.close = "]" /\ ~i.trail /\ i.nosep = 0
  /\ Len(i.elems) >= 1
  /\ \A k \in 1..Len(i.elems) : i.elems[k].t = "obj" /\ ElemValid(i, k)

AllElemAirports(i) == [k \in 1..Len(i.elems) |-> ElemAirport(i, k)]

\* The table after the airports of sequence as were upserted in order.
RECURSIVE TableAfter(_, _)
TableAfter(rows, as) ==
  IF as = << >> THEN rows
  ELSE TableAfter({ x \in rows : x.IataCode # Head(as).IataCode } \cup { Head(as) }, Tail(as))

NoFailure(r, op) == \A j \in 1..Len(log[r]) : log[r][j].op = op => log[r][j].ok

FailedEvent(e) == e.op \notin { "more", "range", "respond" } /\ ~e.ok

SuccessResponse == [status |-> 200, key |-> "message", msg |-> << "airports upserted" >>]
OpenErrorResponse ==
  [status |-> 400, key |-> "error", msg |-> << "invalid JSON: expected '[' at start" >>]
CloseErrorResponse ==
  [status |-> 400, key |-> "error", msg |-> << "invalid JSON: expected ']' at end" >>]

\* C3 as stated: for a valid non-empty array, from the same table and with
\* every upsert succeeding, both handlers end with the same table and both
\* answer 200 with the success message.
C3_Original ==
  (/\ Done(1) /\ Done(2) /\ ValidNonEmptyArray(input[1])
   /\ NoFailure(1, "upsert") /\ NoFailure(2, "upsert")) =>
     /\ db[1] = db[2]
     /\ resp[1] = << SuccessResponse >> /\ resp[2] = << SuccessResponse >>

\* C3 amended: for a valid non-empty array, from the same table, with every
\* upsert succeeding, the body read without error and the Flush succeeding,
\* both handlers end with the same table, made of the same upserts, and both
\* answer 200 with the success message.
C3_Equivalence ==
  (/\ Done(1) /\ Done(2) /\ ValidNonEmptyArray(input[1])
   /\ NoFailure(1, "upsert") /\ NoFailure(2, "upsert")
   /\ NoFailure(1, "flush") /\ NoFailure(2, "readall")) =>
     /\ db[1] = db[2]
     /\ PersistedBy(1) = PersistedBy(2)
     /\ resp[1] = << SuccessResponse >> /\ resp[2] = << SuccessResponse >>

\* Both handlers answered 200 for an array of two elements with the same code
\* and changed the table.
C3_Witness ==
  /\ Done(1) /\ Done(2) /\ ValidNonEmptyArray(input[1])
  /\ resp[1] = << SuccessResponse >> /\ resp[2] = << SuccessResponse >>
  /\ Len(input[1].elems) >= 2
  /\ input[1].elems[1].o.iata_code = input[1].elems[2].o.iata_code
  /\ db[1] # db0 /\ db[1] = db[2]

\* What the first failure of a streaming request is, from the body and from
\* what upsert and Flush returned.
FirstTokenIsOpen(r) == Len(Body(r)) >= 1 /\ Body(r)[1].t = "["

ExpectedClass(r) ==
  IF ~FirstTokenIsOpen(r) THEN "client"
  ELSE IF \E k \in 1..Len(input[r].elems) : FirstFailing(r, k)
    THEN LET k == CHOOSE k \in 1..Len(input[r].elems) : FirstFailing(r, k)
         IN  IF ElemDecodes(input[r], k) /\ ElemValid(input[r], k) THEN "server" ELSE "client"
  ELSE IF input[r].close # "]" THEN "client"
  ELSE IF ~NoFailure(r, "flush") THEN "server"
  ELSE "ok"

\* C4: status classes of the streaming endpoint.  The response is 200 with
\* the success message exactly when the opening delimiter, every element,
\* the closing delimiter and the Flush succeeded; 400 exactly when the first
\* failure is structural, a decode or a validation failure; 500 exactly when it
\* is an upsert or a Flush failure.
C4_StatusClass ==
  \A r \in Reqs : (Streaming(r) /\ Done(r)) =>
    /\ Len(resp[r]) = 1
    /\ ExpectedClass(r) = "ok" <=> resp[r][1] = SuccessResponse
    /\ ExpectedClass(r) = "client" <=> (resp[r][1].status = 400 /\ resp[r][1].key = "error")
    /\ ExpectedClass(r) = "server" <=> (resp[r][1].status = 500 /\ resp[r][1].key = "error")

\* The second element's upsert failed and the streaming request answered 500.
C4_Witness ==
  /\ Streaming(1) /\ Done(1) /\ UpsertFailedAt(1, 2)
  /\ resp[1][1].status = 500

\* C5: one outcome per request (both handlers).  A request that has not
\* ended has written no response; one that has ended has written exactly one,
\* and that write is the last call it made.
C5_OneOutcome ==
  \A r \in Reqs :
    /\ Len(resp[r]) = (IF Done(r) THEN 1 ELSE 0)
    /\ Len(Events(r, "respond")) = Len(resp[r])
    /\ \A j \in 1..Len(log[r]) : log[r][j].op = "respond" => j = Len(log[r])

\* Both requests ended, the streaming one with the success message and the
\* full-buffer one with an error.
C5_Witness ==
  /\ Done(1) /\ Done(2)
  /\ resp[1] = << SuccessResponse >>
  /\ Len(resp[2]) = 1 /\ resp[2][1].key = "error"
  /\ Len(Events(1, "upsert")) > 0

\* C6: missing opening delimiter (streaming path).  If the body does not
\* start with '[', the request ends with 400 "invalid JSON: expected '[' at
\* start", without a Decode, without an upsert and with the table as it was.
C6_MissingOpen ==
  \A r \in Reqs : (Streaming(r) /\ Done(r) /\ ~FirstTokenIsOpen(r)) =>
    /\ resp[r] = << OpenErrorResponse >>
    /\ Events(r, "decode") = << >> /\ Events(r, "validate") = << >>
    /\ Events(r, "upsert") = << >>
    /\ db[r] = db0

\* A body that starts with an object and still has its ']', on a table that
\* has rows.
C6_Witness ==
  /\ Streaming(1) /\ Done(1)
  /\ input[1].open = "none" /\ Len(input[1].elems) >= 1 /\ input[1].elems[1].t = "obj"
  /\ input[1].close = "]" /\ db0 # {}

\* C7 as stated: whenever the streaming request ends with a structure error
\* (at the start or at the end of the array), upsert was not applied to any
\* element of the request.
C7_Original ==
  \A r \in Reqs :
    (Streaming(r) /\ Done(r) /\ resp[r][1] \in { OpenErrorResponse, CloseErrorResponse }) =>
      Events(r, "upsert") = << >>

\* C7 amended: a structure error at the start of the array is reported before
\* any element is decoded or upserted; a structure error at the end is
\* reported after every element of the array was upserted, and those rows
\* stay in the table.
C7_StructureErrorOrder ==
  \A r \in Reqs : (Streaming(r) /\ Done(r)) =>
    /\ resp[r][1] = OpenErrorResponse =>
         Events(r, "decode") = << >> /\ Events(r, "upsert") = << >> /\ db[r] = db0
    /\ resp[r][1] = CloseErrorResponse =>
         /\ input[r].close # "]"
         /\ PersistedBy(r) = AllElemAirports(input[r])
         /\ db[r] = TableAfter(db0, AllElemAirports(input[r]))

\* An array of two elements with a '}' where the ']' should be: both rows
\* written, then the structure error.
C7_Witness ==
  /\ Streaming(1) /\ Done(1) /\ resp[1][1] = CloseErrorResponse
  /\ input[1].close = "}" /\ Len(PersistedBy(1)) >= 2

\* C8: missing closing delimiter (streaming path).  The closing check comes
\* right after a More() that returned false, with no failure before it; when
\* every element went through and the array does not end with ']', the check
\* fails and the request ends with 400 "invalid JSON: expected ']' at end",
\* without a Flush and without the success body.
C8_MissingClose ==
  \A r \in Reqs : Streaming(r) =>
    /\ \A j \in 1..Len(log[r]) : log[r][j].op = "token]" =>
         /\ j > 1 /\ log[r][j - 1].op = "more" /\ ~log[r][j - 1].ok
         /\ \A i \in 1..(j - 1) : ~FailedEvent(log[r][i])
    /\ (/\ Done(r) /\ FirstTokenIsOpen(r) /\ input[r].close # "]"
        /\ ~\E k \in 1..Len(input[r].elems) : FirstFailing(r, k)) =>
         /\ ~NoFailure(r, "token]")
         /\ resp[r] = << CloseErrorResponse >>
         /\ Events(r, "flush") = << >>

\* The body ends after its only element: the row is written and the closing
\* check fails on the end of input.
C8_Witness ==
  /\ Streaming(1) /\ Done(1) /\ input[1].close = "none" /\ Len(input[1].elems) = 1
  /\ ~NoFailure(1, "token]") /\ Len(PersistedBy(1)) = 1

\* C9: commit ordering (streaming path).  Flush is called at most once, right
\* after the closing ']' was read, with '[' read, every element of the array
\* upserted and no failure before it; the success body is written right
\* after a Flush that succeeded; a request that failed before never calls
\* Flush.
C9_CommitOrder ==
  \A r \in Reqs : Streaming(r) =>
    /\ Len(Events(r, "flush")) <= 1
    /\ \A j \in 1..Len(log[r]) :
         /\ log[r][j].op = "flush" =>
              /\ j > 1 /\ log[r][j - 1].op = "token]" /\ log[r][j - 1].ok
              /\ \A i \in 1..(j - 1) : ~FailedEvent(log[r][i])
              /\ log[r][1].op = "token[" /\ log[r][1].ok
              /\ input[r].open = "[" /\ input[r].close = "]"
              /\ PersistedBy(r) = AllElemAirports(input[r])
         /\ (log[r][j].op = "respond" /\ log[r][j].ok) =>
              j > 1 /\ log[r][j - 1].op = "flush" /\ log[r][j - 1].ok
         /\ (FailedEvent(log[r][j]) /\ log[r][j].op # "flush") => Events(r, "flush") = << >>

\* A full array went through, Flush succeeded and the success body followed.
C9_Witness ==
  /\ Streaming(1) /\ Done(1) /\ Len(input[1].elems) = MaxElems
  /\ Len(Events(1, "flush")) = 1 /\ NoFailure(1, "flush")
  /\ resp[1] = << SuccessResponse >>

\* C10: commit failure (streaming path).  If Flush fails after the whole
\* array went through, the request ends with 500 and the Flush error's
\* message, the success body is not written, and every row of the array is in
\* the table.
C10_CommitFailure ==
  \A r \in Reqs : \A j \in 1..Len(log[r]) :
    (Streaming(r) /\ Done(r) /\ log[r][j].op = "flush" /\ ~log[r][j].ok) =>
      /\ resp[r] = << [status |-> 500, key |-> "error", msg |-> << log[r][j].err >>] >>
      /\ PersistedBy(r) = AllElemAirports(input[r])
      /\ db[r] = TableAfter(db0, AllElemAirports(input[r]))

\* Two rows were written to a table that had rows, then Flush failed.
C10_Witness ==
  /\ Streaming(1) /\ Done(1) /\ ~NoFailure(1, "flush")
  /\ Len(PersistedBy(1)) >= 2 /\ db[1] # db0 /\ db0 # {}

\* C11: error responses precede the commit point (streaming path).  Every
\* error response is written after a call that failed and before any Flush
\* that succeeded; after a Flush that succeeded the request makes one more
\* call only, the write of the success body.
C11_ErrorsBeforeCommit ==
  \A r \in Reqs : Streaming(r) =>
    \A j \in 1..Len(log[r]) :
      /\ (log[r][j].op = "flush" /\ log[r][j].ok) =>
           /\ Len(log[r]) <= j + 1
           /\ \A i \in (j + 1)..Len(log[r]) : log[r][i].op = "respond" /\ log[r][i].n = 200
           /\ \A i \in 1..Len(resp[r]) : resp[r][i] = SuccessResponse
      /\ (log[r][j].op = "respond" /\ log[r][j].n # 200) =>
           /\ j > 1 /\ FailedEvent(log[r][j - 1])
           /\ \A i \in 1..(j - 1) : ~(log[r][i].op = "flush" /\ log[r][i].ok)

\* A request whose Flush succeeded after two upserts and that wrote the
\* success body.
C11_Witness ==
  /\ Streaming(1) /\ Done(1) /\ Len(PersistedBy(1)) = 2
  /\ \E j \in 1..Len(log[1]) : log[1][j].op = "flush" /\ log[1][j].ok
  /\ log[1][Len(log[1])].op = "respond" /\ resp[1] = << SuccessResponse >>

\* C12: persistence failure reporting (both handlers).  When upsert failed
\* for an element, the request writes one response, status 500 with the
\* message "error upserting airport: " followed by the message of the cause
\* upsert returned, and the table holds what the request's earlier upserts
\* left in it.
C12_UpsertFailureReported ==
  \A r \in Reqs : \A j \in 1..Len(log[r]) :
    (log[r][j].op = "upsert" /\ ~log[r][j].ok) =>
      /\ resp[r] = << [status |-> 500, key |-> "error",
                       msg |-> << "error upserting airport", log[r][j].err >>] >>
      /\ Done(r)
      /\ db[r] = TableAfter(db0, PersistedBy(r))

\* Both handlers persisted the first element and failed to upsert the
\* second.
C12_Witness ==
  \A r \in Reqs :
    /\ Done(r) /\ Len(PersistedBy(r)) = 1 /\ UpsertFailedAt(r, 2)
    /\ db[r] # db0

\* The upsert calls of request r, in call order.
UpsertCalls(r) == Events(r, "upsert")

\* The calls of request r that work on one element, in call order.
ElementCalls(r) == SelectSeq(log[r], LAMBDA e : e.op \in { "validate", "upsert" })

\* C13: strict order, no retry (both handlers).  The upsert calls of a
\* request are a prefix of the array's elements in source order: the k-th
\* call is for element k and passes the airport of element k, a call that
\* failed is the last one, and the calls on elements never go back to an
\* earlier element.
C13_StrictOrderNoRetry ==
  \A r \in Reqs :
    /\ Len(UpsertCalls(r)) <= Len(input[r].elems)
    /\ \A k \in 1..Len(UpsertCalls(r)) :
         /\ UpsertCalls(r)[k].n = k
         /\ UpsertCalls(r)[k].a = ElemAirport(input[r], k)
         /\ ~UpsertCalls(r)[k].ok => k = Len(UpsertCalls(r))
    /\ \A j \in 1..Len(ElementCalls(r)) : \A i \in 1..(j - 1) :
         /\ ElementCalls(r)[i].n <= ElementCalls(r)[j].n
         /\ ElementCalls(r)[i].op = ElementCalls(r)[j].op =>
              ElementCalls(r)[i].n < ElementCalls(r)[j].n

\* Both handlers upserted element 1 and then failed on element 2, of two
\* different elements.
C13_Witness ==
  /\ Len(input[1].elems) = 2 /\ input[1].elems[1] # input[1].elems[2]
  /\ \A r \in Reqs : Done(r) /\ Len(UpsertCalls(r)) = 2 /\ ~UpsertCalls(r)[2].ok

\* The rows of table rows with code c.
RowsOf(rows, c) == { x \in rows : x.IataCode = c }

\* C14: later duplicate wins (both handlers).  When two valid elements j < k
\* of the array share a code and the request succeeded, both were upserted,
\* j before k, and the one row with that code has the name, city and
\* country of the last element with that code.
C14_LaterDuplicateWins ==
  \A r \in Reqs : \A j, k \in 1..Len(input[r].elems) :
    (/\ Done(r) /\ resp[r] = << SuccessResponse >>
     /\ j < k /\ ElemDecodes(input[r], j) /\ ElemDecodes(input[r], k)
     /\ ElemValid(input[r], j) /\ ElemValid(input[r], k)
     /\ ElemAirport(input[r], j).IataCode = ElemAirport(input[r], k).IataCode
     /\ \A m \in (k + 1)..Len(input[r].elems) :
          ElemAirport(input[r], m).IataCode # ElemAirport(input[r], k).IataCode) =>
       /\ Len(UpsertCalls(r)) >= k
       /\ UpsertCalls(r)[j].ok /\ UpsertCalls(r)[j].a = ElemAirport(input[r], j)
       /\ UpsertCalls(r)[k].ok /\ UpsertCalls(r)[k].a = ElemAirport(input[r], k)
       /\ RowsOf(db[r], ElemAirport(input[r], k).IataCode) = { ElemAirport(input[r], k) }

\* Both handlers succeeded on an array of two elements with one code and
\* different names, on a table that had a row with that code.
C14_Witness ==
  /\ Len(input[1].elems) = 2
  /\ ElemAirport(input[1], 1).IataCode = ElemAirport(input[1], 2).IataCode
  /\ ElemAirport(input[1], 1).Name # ElemAirport(input[1], 2).Name
  /\ RowsOf(db0, ElemAirport(input[1], 1).IataCode) # {}
  /\ \A r \in Reqs : Done(r) /\ resp[r] = << SuccessResponse >>

\* The step of request r is an upsert that succeeded, right after an upsert
\* that succeeded for an airport with the same code.
SecondUpsertOfCode(r) ==
  /\ Len(log'[r]) = Len(log[r]) + 1
  /\ log'[r][Len(log'[r])].op = "upsert" /\ log'[r][Len(log'[r])].ok
  /\ Len(UpsertCalls(r)) > 0
  /\ UpsertCalls(r)[Len(UpsertCalls(r))].ok
  /\ UpsertCalls(r)[Len(UpsertCalls(r))].a.IataCode = log'[r][Len(log'[r])].a.IataCode

\* C15: upsert idempotence.  An upsert applied after an upsert of the same
\* code leaves exactly one row for that code, with the second call's name,
\* city and country; when the two calls pass the identical airport the table
\* after the second call equals the table after the first.
C15_UpsertIdempotent ==
  [][\A r \in Reqs : SecondUpsertOfCode(r) =>
       LET b == log'[r][Len(log'[r])].a
           a == UpsertCalls(r)[Len(UpsertCalls(r))].a
       IN  /\ RowsOf(db'[r], b.IataCode) = { b }
           /\ Cardinality(RowsOf(db'[r], b.IataCode)) = 1
           /\ a = b => db'[r] = db[r]
           /\ \A c \in { x.IataCode : x \in db[r] } \ { b.IataCode } :
                RowsOf(db'[r], c) = RowsOf(db[r], c)]_vars

\* Two upserts in sequence with one code succeeded in the streaming request,
\* the second with another name than the first.
C15_Witness ==
  /\ Len(UpsertCalls(1)) = 2 /\ UpsertCalls(1)[2].ok
  /\ UpsertCalls(1)[1].a.IataCode = UpsertCalls(1)[2].a.IataCode
  /\ UpsertCalls(1)[1].a.Name # UpsertCalls(1)[2].a.Name
  /\ log[1][Len(log[1])].op = "upsert"
  /\ Cardinality(RowsOf(db[1], UpsertCalls(1)[2].a.IataCode)) = 1

\* The body is the text [].
EmptyArray(i) == i.open = "[" /\ i.elems = << >> /\ i.close = "]" /\ ~i.trail

\* C16 as stated: the body [] ends, in both handlers, with status 200 and the
\* success message, no upsert call and the table as it was.
C16_Original ==
  \A r \in Reqs :
    (Done(r) /\ EmptyArray(input[r]) /\ NoFailure(r, "readall")) =>
      /\ resp[r] = << SuccessResponse >>
      /\ Len(UpsertCalls(r)) = 0
      /\ db[r] = db0

\* C16: empty array.  The body [] ends, in both handlers, with no upsert
\* call and the table as it was; the response is 200 with the success
\* message when the streaming path's Flush succeeded, and the 500 of the
\* Flush error when it failed.
C16_EmptyArray ==
  \A r \in Reqs :
    (Done(r) /\ EmptyArray(input[r]) /\ NoFailure(r, "readall")) =>
      /\ Len(UpsertCalls(r)) = 0 /\ Len(Events(r, "validate")) = 0
      /\ db[r] = db0
      /\ Len(resp[r]) = 1
      /\ NoFailure(r, "flush") => resp[r][1] = SuccessResponse
      /\ ~NoFailure(r, "flush") =>
           /\ Streaming(r)
           /\ resp[r][1].status = 500 /\ resp[r][1].key = "error"
           /\ resp[r][1].msg \in { << e >> : e \in FlushErrs }

\* Both handlers answered 200 to the body [] on a table that has rows.
C16_Witness ==
  /\ EmptyArray(input[1]) /\ db0 # {}
  /\ \A r \in Reqs : Done(r) /\ resp[r] = << SuccessResponse >> /\ db[r] = db0

\* Request r validated element k of the decoded array.
Attempted(r, k) == \E j \in 1..Len(log[r]) : log[r][j].op = "validate" /\ log[r][j].n = k

\* Request r validated element k and upserted it.
Applied(r, k) ==
  /\ \E j \in 1..Len(log[r]) : log[r][j].op = "validate" /\ log[r][j].n = k /\ log[r][j].ok
  /\ \E j \in 1..Len(log[r]) : log[r][j].op = "upsert" /\ log[r][j].n = k /\ log[r][j].ok

\* C17 as stated: the baseline handler writes a response only when every
\* element of the decoded array has been attempted.
C17_Original ==
  \A r \in Reqs :
    (~Streaming(r) /\ Len(resp[r]) > 0 /\ NoFailure(r, "readall") /\ NoFailure(r, "unmarshal")) =>
      \A k \in 1..Len(arr[r]) : Attempted(r, k)

\* C17: baseline response timing.  The baseline handler writes the success
\* response only after every element of the decoded array was validated and
\* upserted; it writes an error response right after the first call that
\* failed, with every earlier element validated and upserted and no later
\* element attempted.
C17_ResponseTiming ==
  \A r \in Reqs :
    (~Streaming(r) /\ Len(resp[r]) > 0) =>
      /\ Len(resp[r]) = 1 /\ log[r][Len(log[r])].op = "respond"
      /\ resp[r][1].status = 200 =>
           /\ resp[r][1] = SuccessResponse
           /\ \A k \in 1..Len(arr[r]) : Applied(r, k)
           /\ \A j \in 1..Len(log[r]) : ~FailedEvent(log[r][j])
      /\ resp[r][1].status # 200 =>
           LET f == log[r][Len(log[r]) - 1] IN
             /\ FailedEvent(f)
             /\ \A j \in 1..(Len(log[r]) - 2) : ~FailedEvent(log[r][j])
             /\ f.op \in { "validate", "upsert" } =>
                  /\ \A k \in 1..(f.n - 1) : Applied(r, k)
                  /\ \A k \in (f.n + 1)..Len(arr[r]) : ~Attempted(r, k)
             /\ f.op \in { "readall", "unmarshal" } => \A k \in 1..MaxElems : ~Attempted(r, k)

\* The baseline handler wrote an error response for element 1 of an array of
\* two elements, the second of which is valid and was never attempted.
C17_Witness ==
  /\ Len(arr[2]) = 2 /\ Len(resp[2]) = 1 /\ resp[2][1].status = 400
  /\ Attempted(2, 1) /\ ~Attempted(2, 2)
  /\ ElemValid(input[2], 2)

\* The body is one well-formed JSON array: brackets, commas and JSON values,
\* whatever the values' types.
WellFormedArray(i) ==
  /\ i.open = "[" /\ i.close = "]" /\ ~i.trail /\ i.nosep = 0
  /\ \A k \in 1..Len(i.elems) : i.elems[k].t \in { "obj", "null", "bad" }

\* Every element of the array is an object or null, what decodes into a
\* candidate.
CandidatesOnly(i) == \A k \in 1..Len(i.elems) : i.elems[k].t \in { "obj", "null" }

\* The upsert calls the two requests both made returned the same.
SameUpsertResults ==
  \A j \in 1..Len(UpsertCalls(1)) :
    j <= Len(UpsertCalls(2)) =>
      /\ UpsertCalls(1)[j].ok = UpsertCalls(2)[j].ok
      /\ UpsertCalls(1)[j].err = UpsertCalls(2)[j].err

\* Element k is the first to fail in the streaming request, at validation or
\* at upsert.
FailsPastDecode(k) == FirstFailing(1, k) /\ ElemDecodes(input[1], k)

\* Both requests persisted elements 1..k-1, attempted nothing after k and
\* wrote the same one error response.
SameFailFast(k) ==
  /\ PersistedBy(1) = [j \in 1..(k - 1) |-> ElemAirport(input[1], j)]
  /\ PersistedBy(2) = PersistedBy(1)
  /\ db[1] = db[2]
  /\ \A r \in Reqs : \A j \in 1..Len(log[r]) :
       log[r][j].op \in { "decode", "range", "validate", "upsert" } => log[r][j].n <= k
  /\ Len(resp[1]) = 1 /\ resp[1] = resp[2]
  /\ resp[1][1].status \in { 400, 500 } /\ resp[1][1].key = "error"

\* C18 as stated: for every well-formed JSON array whose first failing
\* element k fails validation or upsert, both handlers, from the same table
\* and with the same upsert results, persist elements 1..k-1, attempt nothing
\* after k and write the same status and message.
C18_Original ==
  \A k \in 1..MaxElems :
    (/\ Done(1) /\ Done(2) /\ WellFormedArray(input[1]) /\ NoFailure(2, "readall")
     /\ FailsPastDecode(k) /\ SameUpsertResults) => SameFailFast(k)

\* C18: baseline fail-fast equals streaming fail-fast.  For every well-formed
\* JSON array whose elements are all objects or null and whose first failing
\* element k fails validation or upsert, both handlers, from the same table
\* and with the same upsert results, persist elements 1..k-1, attempt nothing
\* after k and write the same status and message.
C18_FailFastEquivalence ==
  \A k \in 1..MaxElems :
    (/\ Done(1) /\ Done(2) /\ WellFormedArray(input[1]) /\ CandidatesOnly(input[1])
     /\ NoFailure(2, "readall")
     /\ FailsPastDecode(k) /\ SameUpsertResults) => SameFailFast(k)

\* Both handlers persisted element 1 and failed to upsert element 2 with the
\* same cause.
C18_Witness ==
  /\ Done(1) /\ Done(2) /\ WellFormedArray(input[1]) /\ CandidatesOnly(input[1])
  /\ FailsPastDecode(2) /\ SameUpsertResults
  /\ UpsertFailedAt(1, 2) /\ UpsertFailedAt(2, 2)
  /\ Len(PersistedBy(2)) = 1 /\ resp[2][1].status = 500

\* The body is one JSON array of values that decode into candidates.
ArrayOfCandidates(i) == WellFormedArray(i) /\ CandidatesOnly(i)

\* Request r validated nothing, upserted nothing and left the table as it
\* was.
NothingApplied(r) ==
  /\ Len(Events(r, "validate")) = 0 /\ Len(UpsertCalls(r)) = 0
  /\ db[r] = db0

\* C19: baseline whole-body failure.  In the baseline handler, when reading
\* the body fails the response is 400 "failed to read request body"; when the
\* body was read and is not one JSON array of candidates the response is 400
\* "invalid JSON format"; in both cases nothing is validated, upsert is never
\* called and the table is unchanged.
C19_WholeBodyFailure ==
  \A r \in Reqs : (~Streaming(r) /\ Done(r)) =>
    /\ ~NoFailure(r, "readall") =>
         /\ resp[r] = << [status |-> 400, key |-> "error",
                          msg |-> << "failed to read request body" >>] >>
         /\ NothingApplied(r)
    /\ (NoFailure(r, "readall") /\ ~ArrayOfCandidates(input[r])) =>
         /\ resp[r] = << [status |-> 400, key |-> "error", msg |-> << "invalid JSON format" >>] >>
         /\ NothingApplied(r)

\* The baseline handler answered 200 to the body null, which the streaming
\* handler rejected for its missing '['.
C19_Witness ==
  /\ Tokens(input[2]) = << [t |-> "null", o |-> NoObj] >>
  /\ Done(2) /\ resp[2] = << SuccessResponse >>
  /\ Done(1) /\ resp[1] = << OpenErrorResponse >>

\* The airports request r had upserted successfully when its context was
\* cancelled, in call order.
PersistedBeforeCancel(r) ==
  LET oks == SelectSeq(SubSeq(log[r], 1, cancelAt[r]), LAMBDA e : e.op = "upsert" /\ e.ok)
  IN  [k \in 1..Len(oks) |-> oks[k].a]

\* C20: cancellation (both handlers).  Once the request's context is
\* cancelled, the next upsert call fails; after it the request only writes
\* the error response and takes up no further element; the table holds what
\* the upserts before the cancellation left in it.
C20_Cancellation ==
  \A r \in Reqs : cancelAt[r] # NotCancelled =>
    /\ \A j \in (cancelAt[r] + 1)..Len(log[r]) :
         log[r][j].op = "upsert" =>
           /\ ~log[r][j].ok
           /\ j = Len(log[r]) - 1
           /\ log[r][j + 1].op = "respond" /\ log[r][j + 1].n = 500
           /\ Done(r)
           /\ \A i \in 1..Len(log[r]) :
                log[r][i].op \in { "decode", "range", "validate", "upsert" } =>
                  log[r][i].n <= log[r][j].n
    /\ PersistedBy(r) = PersistedBeforeCancel(r)
    /\ db[r] = TableAfter(db0, PersistedBeforeCancel(r))

\* The streaming request was cancelled after it had persisted element 1; its
\* upsert of element 2 failed and element 1 is still in the table.
C20_Witness ==
  /\ cancelAt[1] # NotCancelled /\ Done(1)
  /\ Len(PersistedBeforeCancel(1)) = 1
  /\ UpsertFailedAt(1, 2)
  /\ PersistedBeforeCancel(1)[1] \in db[1] /\ db[1] # db0

\* What request r ends with, told from its own body and from what its own
\* calls returned: the elements before the first failing one upserted, and
\* the error of that element; every element upserted and the success
\* response when none fails and the response is committed.
OwnOutcome(r) ==
  IF ~NoFailure(r, "readall")
    THEN /\ Len(UpsertCalls(r)) = 0
         /\ resp[r] = << [status |-> 400, key |-> "error",
                          msg |-> << "failed to read request body" >>] >>
  ELSE IF \E k \in 1..Len(input[r].elems) : FirstFailing(r, k)
    THEN \A k \in 1..Len(input[r].elems) : FirstFailing(r, k) =>
           /\ PersistedBy(r) = [j \in 1..(k - 1) |-> ElemAirport(input[r], j)]
           /\ Len(UpsertCalls(r)) = (IF UpsertFailedAt(r, k) THEN k ELSE k - 1)
           /\ resp[r] = << IF UpsertFailedAt(r, k)
                             THEN [status |-> 500, key |-> "error",
                                   msg |-> << "error upserting airport",
                                              UpsertCalls(r)[k].err >>]
                             ELSE [status |-> 400, key |-> "error",
                                   msg |-> ViolationsOf(ElemAirport(input[r], k))] >>
  ELSE /\ PersistedBy(r) = AllElemAirports(input[r])
       /\ Len(UpsertCalls(r)) = Len(input[r].elems)
       /\ IF NoFailure(r, "flush")
            THEN resp[r] = << SuccessResponse >>
            ELSE Len(resp[r]) = 1 /\ resp[r][1].status = 500

\* What a step leaves alone of the requests that do not take it.
OthersUntouched(r) ==
  \A q \in Reqs \ { r } :
    /\ pc'[q] = pc[q] /\ resp'[q] = resp[q] /\ log'[q] = log[q]
    /\ req'[q] = req[q] /\ idx'[q] = idx[q] /\ arr'[q] = arr[q]
    /\ pos'[q] = pos[q] /\ cancelAt'[q] = cancelAt[q]

\* The step appends to the calls of request r an upsert that succeeded.
UpsertApplied(r) ==
  /\ Len(log'[r]) = Len(log[r]) + 1
  /\ log'[r][Len(log'[r])].op = "upsert" /\ log'[r][Len(log'[r])].ok

\* C21: independence of concurrent requests.  With two requests running
\* concurrently on one table, whatever the interleaving: a request that has
\* not ended can take its next step, whatever happened to the other; each
\* step is the step of one request and leaves the other as it was; a request
\* that ended has the outcome its own body and the results of its own calls
\* call for; and after each upsert that succeeded the one row with that code
\* is the airport that upsert was passed, the table being changed by nothing
\* else.
C21_Independence ==
  /\ [](\A r \in Reqs :
          /\ ~Done(r) => ENABLED Step(r)
          /\ Done(r) => OwnOutcome(r)
          /\ db[r] = db[1])
  /\ [][/\ \E r \in Reqs : OthersUntouched(r)
        /\ \A r \in Reqs :
             UpsertApplied(r) =>
               RowsOf(db'[r], log'[r][Len(log'[r])].a.IataCode) = { log'[r][Len(log'[r])].a }
        /\ (\A r \in Reqs : ~UpsertApplied(r)) => db' = db]_vars

\* The streaming request failed at its second upsert after the full-buffer
\* request had ended in success with two upserts of the same code, and the
\* table holds the row the streaming request wrote.
C21_Witness ==
  /\ shared /\ Done(1) /\ Done(2)
  /\ resp[2] = << SuccessResponse >> /\ Len(PersistedBy(2)) = 2
  /\ resp[1][1].status = 500 /\ Len(PersistedBy(1)) = 1
  /\ PersistedBy(1)[1] \in db[1]
  /\ PersistedBy(2)[2] \notin db[1]
  /\ PersistedBy(2)[2].IataCode = PersistedBy(1)[1].IataCode

\* Candidates with each of the four fields empty or not.
SomeCandidates ==
  [Name : { "", "A" }, City : { "", "C" }, Country : { "", "K" }, IataCode : { "", "X1" }]

\* The wire names of the empty fields of u, in the order name, city, country,
\* iata_code.
EmptyFieldsOf(u) ==
  (IF u.Name = "" THEN << "name" >> ELSE << >>)
    \o (IF u.City = "" THEN << "city" >> ELSE << >>)
    \o (IF u.Country = "" THEN << "country" >> ELSE << >>)
    \o (IF u.IataCode = "" THEN << "iata_code" >> ELSE << >>)

\* C22: validation rule (both handlers).  Validation returns a violation for
\* exactly the empty ones of name, city, country and iata_code, in that
\* order, and none when the four are non-empty; whether the element carries
\* geoloc plays no part; when validation of an element fails the handler
\* answers 400 with the whole list of that element, and nothing else.
C22_ValidationRule ==
  /\ \A u \in SomeCandidates : Check(u) = EmptyFieldsOf(u)
  /\ \A r \in Reqs : \A j \in 1..Len(log[r]) :
       log[r][j].op = "validate" =>
         /\ log[r][j].n \in 1..Len(input[r].elems)
         /\ log[r][j].a = ElemAirport(input[r], log[r][j].n)
         /\ log[r][j].ok <=> AllFieldsPresent(log[r][j].a)
         /\ ~log[r][j].ok =>
              /\ j = Len(log[r]) - 1 /\ log[r][j + 1].op = "respond"
              /\ Done(r)
              /\ resp[r] = << [status |-> 400, key |-> "error",
                               msg |-> ViolationsOf(log[r][j].a)] >>

\* Both handlers validated an element that carries geoloc without a
\* violation, and answered 400 with the four violations of the null element
\* after it.
C22_Witness ==
  /\ Len(input[1].elems) = 2
  /\ input[1].elems[1].t = "obj" /\ input[1].elems[1].o.geoloc # Absent
  /\ input[1].elems[2].t = "null"
  /\ \A r \in Reqs :
       /\ Done(r) /\ Len(Events(r, "validate")) = 2
       /\ Events(r, "validate")[1].ok /\ ~Events(r, "validate")[2].ok
       /\ resp[r][1].msg = << "name", "is a required field", "city", "is a required field",
                              "country", "is a required field",
                              "iata_code", "is a required field" >>

\* The last of the upsert calls of request r that succeeded with the code of
\* its k-th call.
LastOfCode(r, k) ==
  CHOOSE m \in k..Len(UpsertCalls(r)) :
    /\ UpsertCalls(r)[m].ok /\ UpsertCalls(r)[m].a.IataCode = UpsertCalls(r)[k].a.IataCode
    /\ \A n \in (m + 1)..Len(UpsertCalls(r)) :
         ~(UpsertCalls(r)[n].ok /\ UpsertCalls(r)[n].a.IataCode = UpsertCalls(r)[k].a.IataCode)

\* C23: code round-trip (both handlers).  The airport passed to upsert for
\* element k has the iata_code, name, city and country the body gives for
\* element k, untransformed; once persisted, the table has one row with that
\* very code, holding the values of the last upsert of that code.
C23_RoundTrip ==
  \A r \in Reqs : \A k \in 1..Len(UpsertCalls(r)) :
    /\ UpsertCalls(r)[k].a.IataCode = input[r].elems[k].o.iata_code
    /\ UpsertCalls(r)[k].a.Name = input[r].elems[k].o.name
    /\ UpsertCalls(r)[k].a.City = input[r].elems[k].o.city
    /\ UpsertCalls(r)[k].a.Country = input[r].elems[k].o.country
    /\ UpsertCalls(r)[k].ok =>
         RowsOf(db[r], input[r].elems[k].o.iata_code) = { UpsertCalls(r)[LastOfCode(r, k)].a }

\* Both handlers persisted two elements with different codes and different
\* names and cities on an empty table.
C23_Witness ==
  /\ db0 = {} /\ Len(input[1].elems) = 2
  /\ input[1].elems[1].o.iata_code # input[1].elems[2].o.iata_code
  /\ input[1].elems[1].o.name # input[1].elems[1].o.city
  /\ \A r \in Reqs :
       /\ Done(r) /\ Len(PersistedBy(r)) = 2
       /\ db[r] = { ElemAirport(input[r], 1), ElemAirport(input[r], 2) }

\* What the environment returned to request r: the results of its reads of
\* the body, of its upsert calls and of its Flush, in call order.
EnvResults(r) ==
  LET es == SelectSeq(log[r], LAMBDA e : e.op \in { "readall", "upsert", "flush" })
  IN  [j \in 1..Len(es) |-> << es[j].op, es[j].ok, es[j].err >>]

\* The two bodies differ in the geoloc of an element, and in nothing else.
DifferInGeolocOnly ==
  /\ input[1] # input[2]
  /\ GeolocSet(input[1], Absent) = GeolocSet(input[2], Absent)

\* C24: geoloc does not influence the result (both handlers).  Two requests
\* to the same endpoint whose bodies differ only in the geoloc of their
\* elements, started on the same table and given the same results by their
\* calls, write the same response and leave the same table, made of the same
\* upserts.
C24_GeolocIgnored ==
  (/\ Done(1) /\ Done(2) /\ handler[1] = handler[2]
   /\ DifferInGeolocOnly /\ EnvResults(1) = EnvResults(2)) =>
     /\ resp[1] = resp[2]
     /\ PersistedBy(1) = PersistedBy(2)
     /\ db[1] = db[2]

\* Two requests to the full-buffer endpoint, the first with geoloc in both
\* elements and the second without, persisted the same two airports and
\* answered 200.
C24_Witness ==
  /\ handler[1] = "nonstream" /\ handler[2] = "nonstream"
  /\ Done(1) /\ Done(2) /\ DifferInGeolocOnly
  /\ Len(input[1].elems) = 2
  /\ \A k \in 1..2 : input[1].elems[k].o.geoloc # Absent /\ input[2].elems[k].o.geoloc = Absent
  /\ Len(PersistedBy(1)) = 2 /\ PersistedBy(1) = PersistedBy(2)
  /\ resp[1] = << SuccessResponse >> /\ resp[2] = << SuccessResponse >>

\* The codes of the rows of a table.
Codes(rows) == { x.IataCode : x \in rows }

\* The codes the requests upserted successfully so far.
UpsertedCodes ==
  UNION { { PersistedBy(r)[k].IataCode : k \in 1..Len(PersistedBy(r)) } : r \in Reqs }

\* C25: no deletion.  With requests to both endpoints on one table, whatever
\* their outcomes (success, failure, cancellation), no step takes a code out
\* of the table: the codes the table had at the start and the codes upserted
\* since are all in it.
C25_NoDeletion ==
  /\ [](Codes(db0) \cup UpsertedCodes \subseteq Codes(db[1]))
  /\ [][\A r \in Reqs : Codes(db[r]) \subseteq Codes(db'[r])]_vars

\* On a table that was empty, the streaming request persisted one code and
\* was cancelled, the full-buffer request persisted another and failed, and
\* both codes are in the table.
C25_Witness ==
  /\ shared /\ db0 = {} /\ Done(1) /\ Done(2)
  /\ cancelAt[1] # NotCancelled /\ resp[1][1].status = 500
  /\ cancelAt[2] = NotCancelled /\ resp[2][1].status = 500
  /\ Len(PersistedBy(1)) = 1 /\ Len(PersistedBy(2)) = 1
  /\ PersistedBy(1)[1].IataCode # PersistedBy(2)[1].IataCode
  /\ Codes(db[1]) = { PersistedBy(1)[1].IataCode, PersistedBy(2)[1].IataCode }

\* The opening '[' read, the streaming request r found another element to
\* take up after k - 1 elements, one that does not decode.
UndecodableNext(r, k) ==
  /\ Streaming(r) /\ input[r].open = "["
  /\ k \in 1..Len(input[r].elems) /\ ~ElemDecodes(input[r], k)
  /\ \E j \in 1..Len(log[r]) : log[r][j].op = "more" /\ log[r][j].ok /\ log[r][j].n = k - 1

\* C26: decode failure (streaming path).  When, past the opening '[', the
\* test for more elements says yes and the next element does not decode into
\* a candidate, the request ends with 400 "invalid JSON airport structure"
\* and that element is neither validated nor passed to upsert; a decode that
\* failed came right after such a test.
C26_DecodeFailure ==
  \A r \in Reqs :
    /\ \A k \in 1..MaxElems :
         (UndecodableNext(r, k) /\ Done(r)) =>
           /\ resp[r] = << [status |-> 400, key |-> "error",
                            msg |-> << "invalid JSON airport structure" >>] >>
           /\ \A j \in 1..Len(log[r]) :
                log[r][j].op \in { "validate", "upsert" } => log[r][j].n < k
           /\ \E j \in 1..Len(log[r]) : log[r][j].op = "decode" /\ ~log[r][j].ok /\ log[r][j].n = k
    /\ \A j \in 1..Len(log[r]) :
         (log[r][j].op = "decode" /\ ~log[r][j].ok) =>
           /\ j > 1 /\ log[r][j - 1].op = "more" /\ log[r][j - 1].ok
           /\ UndecodableNext(r, log[r][j].n)
           /\ j = Len(log[r]) - 1 /\ log[r][j + 1].op = "respond" /\ log[r][j + 1].n = 400

\* The streaming request persisted element 1 and answered 400 for element 2,
\* a value of the wrong type, which it did not validate.
C26_Witness ==
  /\ Done(1) /\ UndecodableNext(1, 2) /\ input[1].elems[2].t = "bad"
  /\ Len(PersistedBy(1)) = 1 /\ Len(Events(1, "validate")) = 1
  /\ resp[1][1].status = 400

\* C27: unique-code invariant.  With requests running concurrently on one
\* table, in every state the table has at most one row per code, and as many
\* rows as there are codes among those it started with and those upserted
\* successfully since.
C27_UniqueCode ==
  \A r \in Reqs :
    /\ \A c \in Codes(db[r]) : Cardinality(RowsOf(db[r], c)) = 1
    /\ Cardinality(db[r]) = Cardinality(Codes(db0) \cup UpsertedCodes)

\* Both requests upserted two elements of one code with different values on
\* a table that had that code, and the table still has two rows.
C27_Witness ==
  /\ shared /\ db0 # {} /\ Done(1) /\ Done(2)
  /\ Len(PersistedBy(1)) = 2 /\ Len(PersistedBy(2)) = 2
  /\ PersistedBy(1)[1] # PersistedBy(1)[2]
  /\ Cardinality(UpsertedCodes) = 1
  /\ Cardinality(db[1]) = 2

\* The step appends an upsert call to the calls of request r.
UpsertCalled(r) ==
  /\ Len(log'[r]) > Len(log[r])
  /\ log'[r][Len(log[r]) + 1].op = "upsert"

\* C28: upsert frame.  An upsert that succeeds with an airport of code c
\* leaves one row with code c, holding that airport's name, city and
\* country, and leaves every row with another code as it was; an upsert that
\* fails leaves the table as it was.
C28_UpsertFrame ==
  [][\A r \in Reqs : UpsertCalled(r) =>
       LET e == log'[r][Len(log[r]) + 1] IN
         IF e.ok
           THEN /\ \A x \in db[r] : x.IataCode # e.a.IataCode => x \in db'[r]
                /\ \A x \in db'[r] : x.IataCode # e.a.IataCode => x \in db[r]
                /\ \E x \in db'[r] :
                     /\ x.IataCode = e.a.IataCode /\ x.Name = e.a.Name
                     /\ x.City = e.a.City /\ x.Country = e.a.Country
                     /\ RowsOf(db'[r], e.a.IataCode) = { x }
           ELSE db'[r] = db[r]]_vars

\* An upsert replaced the row of its code on a table that has a row with
\* another code, and an upsert failed after it.
C28_Witness ==
  /\ shared /\ Cardinality(db0) = 2
  /\ \E r \in Reqs :
       /\ Len(UpsertCalls(r)) = 2 /\ UpsertCalls(r)[1].ok /\ ~UpsertCalls(r)[2].ok
       /\ UpsertCalls(r)[1].a \in db[r]
       /\ \E x \in db[r] : x \in db0

\* The body is an array of valid objects followed by more content.
ArrayThenMore(i) ==
  /\ i.open = "[" /\ i.close = "]" /\ i.trail /\ i.nosep = 0
  /\ \A k \in 1..Len(i.elems) : i.elems[k].t = "obj" /\ ElemValid(i, k)

\* The streaming request answered 200 with every element persisted.
AllPersisted ==
  /\ resp[1] = << SuccessResponse >>
  /\ PersistedBy(1) = AllElemAirports(input[1])
  /\ db[1] = TableAfter(db0, AllElemAirports(input[1]))

\* The full-buffer request rejected the body as a whole and persisted
\* nothing.
RejectedWhole ==
  /\ resp[2] = << [status |-> 400, key |-> "error", msg |-> << "invalid JSON format" >>] >>
  /\ NothingApplied(2)

\* The two requests agree on the response and on what they persisted only if
\* the body is exactly one well-formed array.
AgreeOnlyOnArrays ==
  (/\ Done(1) /\ Done(2) /\ NoFailure(2, "readall")
   /\ resp[1] = resp[2] /\ PersistedBy(1) = PersistedBy(2)) => WellFormedArray(input[1])

\* C29 as stated: a valid array followed by more content, every upsert of
\* which succeeds, ends with 200 and every element persisted on the streaming
\* path, and with 400 "invalid JSON format" and nothing persisted on the
\* full-buffer path; the paths agree only on bodies that are exactly one
\* well-formed array.
C29_Original ==
  /\ (Done(1) /\ ArrayThenMore(input[1]) /\ NoFailure(1, "upsert")) => AllPersisted
  /\ (Done(2) /\ ArrayThenMore(input[2]) /\ NoFailure(2, "readall")) => RejectedWhole
  /\ AgreeOnlyOnArrays

\* C29: trailing content divergence.  HandleUpsert reads nothing past the
\* first top-level ']': for a valid array followed by more content it ends
\* with 200 and every element persisted when every upsert and the Flush
\* succeed, and otherwise with the 500 of the upsert or Flush that failed;
\* HandleNonStreamingUpsert rejects the same body with 400 "invalid JSON
\* format" and persists nothing; the paths agree only on bodies that are
\* exactly one well-formed array.
C29_TrailingDivergence ==
  /\ (Done(1) /\ ArrayThenMore(input[1])) =>
       /\ pos[1] <= Len(Body(1))
       /\ NoFailure(1, "token]")
       /\ IF NoFailure(1, "upsert") /\ NoFailure(1, "flush")
            THEN AllPersisted
            ELSE Len(resp[1]) = 1 /\ resp[1][1].status = 500
  /\ (Done(2) /\ ArrayThenMore(input[2]) /\ NoFailure(2, "readall")) => RejectedWhole
  /\ AgreeOnlyOnArrays

\* For two valid elements followed by more content the streaming request
\* answered 200 with both persisted and the full-buffer request answered
\* 400 with nothing persisted.
C29_Witness ==
  /\ ArrayThenMore(input[1]) /\ Len(input[1].elems) = 2
  /\ Done(1) /\ AllPersisted /\ db[1] # db0
  /\ Done(2) /\ RejectedWhole

\* C30: termination (both handlers).  With every call returning, each
\* request ends, with one response written; at no moment has it made more
\* upsert calls than the array has elements, nor two for one element.
C30_Termination ==
  /\ \A r \in Reqs : <>[](Done(r) /\ Len(resp[r]) = 1)
  /\ [](\A r \in Reqs :
          /\ Len(UpsertCalls(r)) <= Len(input[r].elems)
          /\ \A j, k \in 1..Len(UpsertCalls(r)) :
               j # k => UpsertCalls(r)[j].n # UpsertCalls(r)[k].n)

\* Both requests ended after as many upsert calls as the array has elements,
\* the greatest number the bound allows.
C30_Witness ==
  /\ Len(input[1].elems) = MaxElems
  /\ \A r \in Reqs : Done(r) /\ Len(UpsertCalls(r)) = Len(input[r].elems)

\* The calls run had made when it first called db.Close.
BeforeDbClose ==
  LET j == CHOOSE k \in 1..Len(run.trace) :
             /\ run.trace[k] = "db.Close"
             /\ \A m \in 1..(k - 1) : run.trace[m] # "db.Close"
  IN SubSeq(run.trace, 1, j - 1)

EndsWith(s, t) == Len(s) >= Len(t) /\ SubSeq(s, Len(s) - Len(t) + 1, Len(s)) = t

RunCalled(call) == \E k \in 1..Len(run.trace) : run.trace[k] = call

\* C31: shutdown ordering in run.  The database handle is not closed while
\* the server is starting, serving or draining.  When it is closed, run had
\* just received the listener's error from serverErrors, or a signal and then
\* a nil from srv.Shutdown, returned within the deadline, or a signal, an
\* error from srv.Shutdown and then called srv.Close; after srv.Close run
\* returns the error "could not stop server gracefully"; and whenever run
\* has returned with a handle that was opened, the handle is closed.
C31_ShutdownOrdering ==
  /\ DbClosed <=> RunCalled("db.Close")
  /\ DbClosed => run.srv \in { "stopped", "shutdown", "closed" }
  /\ DbClosed =>
       \/ /\ EndsWith(BeforeDbClose, << "serverErrors" >>)
          /\ run.srv = "stopped" /\ run.err = "server error"
       \/ /\ EndsWith(BeforeDbClose, << "shutdown", "Shutdown" >>)
          /\ run.srv = "shutdown" /\ run.elapsed <= ShutdownTimeout
          /\ run.err \in { "nil", "could not close database connection" }
       \/ /\ EndsWith(BeforeDbClose, << "shutdown", "Shutdown failed", "srv.Close" >>)
          /\ run.srv = "closed"
  /\ RunCalled("srv.Close") => run.err = "could not stop server gracefully"
  /\ (run.pc = "exit" /\ run.db # "none") => DbClosed
  /\ run.pc = "exit" => run.err # ""

\* run returned "could not stop server gracefully" after the deadline passed
\* with a handler still running: the server was force-closed and the handle
\* closed after it; another run closed the handle after a graceful Shutdown.
C31_Witness ==
  /\ run.pc = "exit" /\ DbClosed /\ run.srv = "closed"
  /\ run.elapsed = ShutdownTimeout
  /\ run.err = "could not stop server gracefully"
  /\ \E r \in Reqs : InFlight(r)

====
